---- MODULE Spec2Model ----
(***************************************************************************)
(* Model of the PLIVE player-card generator (generate_player_card.py and   *)
(* app.py): the identity resolver get_mlbam_id with its registry, cache    *)
(* and remote fallback, the staged card assembly of draw_player_card, the  *)
(* stat formatter and colour classifier, and the panel row geometry.       *)
(*                                                                         *)
(* Strings that the code transforms (names, raw stat values) are sequences *)
(* of one-character strings, so that upper(), lower(), strip(), split()    *)
(* and float() are computed and not assumed.                               *)
(***************************************************************************)
EXTENDS Integers, Sequences, FiniteSets, TLC

VARIABLES
    chadwick_ids,   \* registry: "first last" (lower case) -> id, read-only
    mlbam_cache,    \* IdentityCache: NAME (upper case) -> id
    call,           \* the last get_mlbam_id call and what it did
    prev,           \* the call before it: its name and result
    stat,           \* one projections row: label, raw value, display string, colour
    threads,        \* concurrent renders: where each one is inside get_mlbam_id
    tables,         \* reference tables: ranks, positions, grades, logo URLs
    card,           \* one draw_player_card call: stage, record, canvas, locals
    plan            \* one geometry pass under given layout constants: stage, rectangles drawn

resolver_vars == <<chadwick_ids, mlbam_cache, call, prev>>

vars == <<chadwick_ids, mlbam_cache, call, prev, stat, threads, tables, card, plan>>

----------------------------------------------------------------------------
(* Bounds of the model *)

\* ids handed out by the registry snapshot are 1..MaxId
MaxId == 2
\* rows of the persisted cache file read by load_mlbam_cache
MaxRows == 1
\* characters of a raw stat value
MaxLen == 4
\* renders running at the same time in one hosting process
MaxThreads == 2

----------------------------------------------------------------------------
(* Python string operations on sequences of characters *)

UpperChar(c) ==
    CASE c = "j" -> "J" [] c = "d" -> "D" [] c = "q" -> "Q"
      [] c = "x" -> "X" [] c = "y" -> "Y" [] OTHER -> c

LowerChar(c) ==
    CASE c = "J" -> "j" [] c = "D" -> "d" [] c = "Q" -> "q"
      [] c = "X" -> "x" [] c = "Y" -> "y" [] OTHER -> c

str_upper(s) == [i \in 1..Len(s) |-> UpperChar(s[i])]

str_lower(s) == [i \in 1..Len(s) |-> LowerChar(s[i])]

RECURSIVE lstrip(_)
lstrip(s) == IF s # <<>> /\ Head(s) = " " THEN lstrip(Tail(s)) ELSE s

RECURSIVE rstrip(_)
rstrip(s) ==
    IF s # <<>> /\ s[Len(s)] = " " THEN rstrip(SubSeq(s, 1, Len(s) - 1)) ELSE s

str_strip(s) == rstrip(lstrip(s))

\* s.split(): the maximal runs of non-blank characters, in order
RECURSIVE SplitFrom(_, _, _)
SplitFrom(s, cur, acc) ==
    IF s = <<>> THEN (IF cur = <<>> THEN acc ELSE Append(acc, cur))
    ELSE IF Head(s) = " "
         THEN SplitFrom(Tail(s), <<>>, IF cur = <<>> THEN acc ELSE Append(acc, cur))
         ELSE SplitFrom(Tail(s), Append(cur, Head(s)), acc)

str_split(s) == SplitFrom(s, <<>>, <<>>)

----------------------------------------------------------------------------
(* Identity resolution: data *)

\* "return None"
NoId == 0

RegistryIds == 1..MaxId

\* player names as they appear in the roster's Name column
Names ==
    { <<"j", " ", "d">>,                 \* first last
      <<"J", " ", "d">>,                 \* the same, other case
      <<"j", " ", "q", " ", "d">>,       \* with a middle token
      <<"j">>,                           \* a single token
      <<"d", " ", "j">> }                \* another player

\* team hints: "" is the absent hint (a record without Team gives "")
Teams == {"", "y"}

\* keys of the registry snapshot built by load_chadwick_ids
RegistryKeys == { <<"j", " ", "d">> }

\* the snapshots: any subset of the keys, each with a non-empty id
Registries ==
    UNION { [D -> RegistryIds] : D \in SUBSET RegistryKeys }

\* what the remote lookup service knows: rows (team, key_mlbam) per
\* (last, first), in the order the service returns them
ServiceRows(last, first) ==
    IF str_lower(first) = <<"j">> /\ str_lower(last) = <<"d">>
    THEN << [team |-> "X", key_mlbam |-> 1], [team |-> "Y", key_mlbam |-> 3] >>
    ELSE <<>>

\* dict[key] = val
Put(d, key, val) ==
    [k \in DOMAIN d \cup {key} |-> IF k = key THEN val ELSE d[k]]

EmptyDict == [k \in {} |-> NoId]

\* rows of the cache file: [name, id], or a short row that is skipped
CacheRows ==
    { <<n, i>> : n \in Names, i \in RegistryIds \cup {3} } \cup { <<n>> : n \in Names }

RECURSIVE LoadRows(_, _)
LoadRows(rows, cache) ==
    IF rows = <<>> THEN cache
    ELSE LoadRows(Tail(rows),
                  IF Len(Head(rows)) >= 2
                  THEN Put(cache, str_upper(Head(rows)[1]), Head(rows)[2])
                  ELSE cache)

load_mlbam_cache(rows) == LoadRows(rows, EmptyDict)

CacheFiles == UNION { [1..n -> CacheRows] : n \in 0..MaxRows }

----------------------------------------------------------------------------
(* get_mlbam_id *)

\* the rows of lookup whose team equals the hint, compared in upper case
TeamRows(lookup, team) ==
    SelectSeq(lookup, LAMBDA r : UpperChar(r.team) = UpperChar(team))

\* step 3 of get_mlbam_id once the service has answered with rows
PickRemoteId(lookup, team) ==
    IF team # "" /\ TeamRows(lookup, team) # <<>>
    THEN TeamRows(lookup, team)[1].key_mlbam
    ELSE lookup[1].key_mlbam

\* step 1: the registry key, "first last" of the lower-cased tokens, or the
\* empty string when the name has fewer than two tokens (no lookup is made)
RegistryKey(player_name) ==
    LET parts == str_split(str_lower(str_strip(player_name)))
    IN  IF Len(parts) >= 2 THEN parts[1] \o <<" ">> \o parts[Len(parts)] ELSE <<>>

\* chadwick_ids.get(full_name): the id, or NoId
RegistryLookup(registry, player_name) ==
    IF RegistryKey(player_name) \in DOMAIN registry
    THEN registry[RegistryKey(player_name)]
    ELSE NoId

RegistryHit_OnlyEntry(cache, key, id, t) ==
    [result |-> id, cache |-> Put(EmptyDict, key, id),
     trace |-> t, remote |-> "notasked", raised |-> FALSE]

\* the registry answered: store under the upper-cased name, return
RegistryHit(cache, key, id, t) ==
    [result |-> id, cache |-> Put(cache, key, id),
     trace |-> t, remote |-> "notasked", raised |-> FALSE]

CacheHit_Skipped(cache, key, t) ==
    [result |-> NoId, cache |-> cache,
     trace |-> t, remote |-> "notasked", raised |-> FALSE]

\* the cache answered: return cache[key]
CacheHit(cache, key, t) ==
    [result |-> cache[key], cache |-> cache,
     trace |-> t, remote |-> "notasked", raised |-> FALSE]

\* fewer than two tokens: return None without asking the service
TooShort(cache, t) ==
    [result |-> NoId, cache |-> cache,
     trace |-> t, remote |-> "notasked", raised |-> FALSE]

LookupFailed_Reraise(cache, t, why) ==
    [result |-> NoId, cache |-> cache,
     trace |-> t, remote |-> why, raised |-> (why = "error")]

\* the service raised (caught by "except Exception") or returned no row
LookupFailed(cache, t, why) ==
    [result |-> NoId, cache |-> cache,
     trace |-> t, remote |-> why, raised |-> FALSE]

RemoteHit_NotStored(cache, key, id, t) ==
    [result |-> id, cache |-> cache,
     trace |-> t, remote |-> "found", raised |-> FALSE]

\* the service answered: store str(id) under the upper-cased name, return
RemoteHit(cache, key, id, t) ==
    [result |-> id, cache |-> Put(cache, key, id),
     trace |-> t, remote |-> "found", raised |-> FALSE]

get_mlbam_id_CacheFirst(player_name, team, cache, registry, service) ==
    LET key == str_upper(player_name)
        parts == str_split(str_strip(player_name))
        lookup == ServiceRows(parts[Len(parts)], parts[1])
    IN  IF key \in DOMAIN cache
        THEN CacheHit(cache, key, <<"cache">>)
        ELSE IF RegistryLookup(registry, player_name) # NoId
        THEN RegistryHit(cache, key, RegistryLookup(registry, player_name),
                         <<"cache", "registry">>)
        ELSE IF Len(parts) < 2 THEN TooShort(cache, <<"cache">>)
        ELSE IF service = "down"
        THEN LookupFailed(cache, <<"cache", "registry", "remote">>, "error")
        ELSE IF lookup = <<>>
        THEN LookupFailed(cache, <<"cache", "registry", "remote">>, "empty")
        ELSE RemoteHit(cache, key, PickRemoteId(lookup, team),
                       <<"cache", "registry", "remote">>)

\* The whole call.  service is "up" or "down" (playerid_lookup raises).
\* Returns the id (or NoId), the cache after the call, the sources consulted
\* in order, what the remote service answered, and whether the call raised.
get_mlbam_id(player_name, team, cache, registry, service) ==
    LET t1 == IF RegistryKey(player_name) # <<>> THEN <<"registry">> ELSE <<>>
        t2 == t1 \o <<"cache">>
        t3 == t2 \o <<"remote">>
        key == str_upper(player_name)
        parts == str_split(str_strip(player_name))
        lookup == ServiceRows(parts[Len(parts)], parts[1])
    IN  IF RegistryLookup(registry, player_name) # NoId
        THEN RegistryHit(cache, key, RegistryLookup(registry, player_name), t1)
        ELSE IF key \in DOMAIN cache THEN CacheHit(cache, key, t2)
        ELSE IF Len(parts) < 2 THEN TooShort(cache, t2)
        ELSE IF service = "down" THEN LookupFailed(cache, t3, "error")
        ELSE IF lookup = <<>> THEN LookupFailed(cache, t3, "empty")
        ELSE RemoteHit(cache, key, PickRemoteId(lookup, team), t3)

----------------------------------------------------------------------------
(* The resolver used call after call on one shared cache *)

\* before the first call: the empty name is no roster name
NoCall == [name |-> <<>>, team |-> "", result |-> NoId, trace |-> <<>>,
           remote |-> "notasked", raised |-> FALSE]

NoPrev == [name |-> <<>>, result |-> NoId]

\* no projections row is being drawn
NoStat == [label |-> "", raw |-> <<>>, shown |-> <<>>, color |-> ""]

Init ==
    /\ chadwick_ids \in Registries
    /\ mlbam_cache \in { load_mlbam_cache(f) : f \in CacheFiles }
    /\ call = NoCall
    /\ prev = NoPrev
    /\ stat = NoStat
    /\ threads = <<>>
    /\ tables = <<>>
    /\ card = <<>>
    /\ plan = <<>>

Resolve(name, team, service) ==
    LET r == get_mlbam_id(name, team, mlbam_cache, chadwick_ids, service)
    IN  /\ mlbam_cache' = r.cache
        /\ call' = [name |-> name, team |-> team, result |-> r.result,
                    trace |-> r.trace, remote |-> r.remote, raised |-> r.raised]
        /\ prev' = [name |-> call.name, result |-> call.result]
        /\ UNCHANGED <<chadwick_ids, stat, threads, tables, card, plan>>

Next ==
    \E name \in Names, team \in Teams, service \in {"up", "down"} :
        Resolve(name, team, service)

Spec == Init /\ [][Next]_vars

----------------------------------------------------------------------------
(* Claims about the resolver *)

InTrace(t, src) == \E i \in 1..Len(t) : t[i] = src

\* C1 as stated: two calls in sequence for the same name return the same id,
\* and the second one asks no remote service.
C1_Idempotent ==
    (call.name # <<>> /\ prev.name = call.name)
        => (call.result = prev.result /\ ~InTrace(call.trace, "remote"))

\* C1 amended: when the first of two calls in sequence for the same name
\* returned an id, the second returns the same id and asks no remote service
\* (a first call that returned absent cached nothing, so the second asks again).
C1_IdempotentOnceResolved ==
    (call.name # <<>> /\ prev.name = call.name /\ prev.result # NoId)
        => (call.result = prev.result /\ ~InTrace(call.trace, "remote"))

C1_Witness ==
    /\ call.name # <<>> /\ prev.name = call.name /\ prev.result # NoId
    /\ call.trace = <<"registry", "cache">>
    /\ call.result = prev.result

\* C2 as stated: a call for a name the cache already maps returns the id the
\* cache maps it to.
C2_CachedIdIsReturned ==
    [][ str_upper(call'.name) \in DOMAIN mlbam_cache
            => call'.result = mlbam_cache[str_upper(call'.name)] ]_vars

\* C2 amended: a call for a name the cache already maps returns the cached id
\* unless the registry holds the name's first and last token; then it returns
\* the registry's id and overwrites the entry with it.  No call changes or
\* removes any other entry.
C2_CachedIdUnlessRegistry ==
    [][ LET key == str_upper(call'.name)
            reg == RegistryLookup(chadwick_ids, call'.name)
        IN  /\ (key \in DOMAIN mlbam_cache /\ reg = NoId)
                   => (call'.result = mlbam_cache[key] /\ mlbam_cache' = mlbam_cache)
            /\ (key \in DOMAIN mlbam_cache /\ reg # NoId)
                   => (call'.result = reg /\ mlbam_cache'[key] = reg)
            /\ \A k \in DOMAIN mlbam_cache :
                   /\ k \in DOMAIN mlbam_cache'
                   /\ k # key => mlbam_cache'[k] = mlbam_cache[k] ]_vars

C2_Witness ==
    /\ call.name # <<>> /\ prev.name # <<>> /\ prev.name # call.name
    /\ call.trace[Len(call.trace)] = "cache"
    /\ call.result # NoId

\* C3: the sources are tried in the order registry, cache, remote; the cache is
\* consulted only after a registry miss, the remote service only after a
\* registry miss and a cache miss, and the first hit is what is returned.
C3_FixedOrder ==
    [][ LET c == call'
            key == str_upper(c.name)
            reg == RegistryLookup(chadwick_ids, c.name)
            rank(src) == CASE src = "registry" -> 1 [] src = "cache" -> 2
                           [] src = "remote" -> 3 [] OTHER -> 0
        IN  /\ \A i \in 1..Len(c.trace) : rank(c.trace[i]) > 0
            /\ \A i, j \in 1..Len(c.trace) :
                   i < j => rank(c.trace[i]) < rank(c.trace[j])
            /\ InTrace(c.trace, "cache") => reg = NoId
            /\ InTrace(c.trace, "remote")
                   => (reg = NoId /\ key \notin DOMAIN mlbam_cache)
            /\ reg # NoId => (c.trace = <<"registry">> /\ c.result = reg)
            /\ (reg = NoId /\ key \in DOMAIN mlbam_cache)
                   => (c.trace[Len(c.trace)] = "cache" /\ c.result = mlbam_cache[key]) ]_vars

C3_Witness ==
    /\ call.trace = <<"registry", "cache", "remote">>
    /\ call.remote = "found"
    /\ call.result # NoId

\* C4: when the remote lookup raises or returns no row, the call returns
\* absent, does not raise, and leaves the cache as it was.
C4_FailedLookupCachesNothing ==
    [][ call'.remote \in {"error", "empty"}
            => (/\ call'.result = NoId
                /\ ~call'.raised
                /\ mlbam_cache' = mlbam_cache) ]_vars

C4_Witness ==
    /\ call.remote = "error"
    /\ call.result = NoId
    /\ mlbam_cache # EmptyDict
    /\ prev.name # <<>>

----------------------------------------------------------------------------
(* Stat formatter and colour classifier *)

COLOR_GRAY == "gray"
COLOR_BLUE == "blue"
COLOR_RED == "red"

\* the labels of STAT_COLOR_RULES
StatLabels == {"BB%", "K%", "AVG", "OBP", "SLG", "wRC+", "HR", "SB"}

\* STAT_COLOR_RULES[label]: the gray band in thousandths, and the reverse flag
STAT_COLOR_RULES(label) ==
    CASE label = "BB%"  -> [gray |-> <<66, 100>>,         reverse |-> FALSE]
      [] label = "K%"   -> [gray |-> <<184, 241>>,        reverse |-> TRUE]
      [] label = "AVG"  -> [gray |-> <<236, 273>>,        reverse |-> FALSE]
      [] label = "OBP"  -> [gray |-> <<311, 353>>,        reverse |-> FALSE]
      [] label = "SLG"  -> [gray |-> <<382, 455>>,        reverse |-> FALSE]
      [] label = "wRC+" -> [gray |-> <<105000, 118000>>,  reverse |-> FALSE]
      [] label = "HR"   -> [gray |-> <<15000, 23000>>,    reverse |-> FALSE]
      [] label = "SB"   -> [gray |-> <<9000, 15000>>,     reverse |-> FALSE]

\* SCOUT_GRADE_RULES["gray"], in thousandths
SCOUT_GRADE_RULES == [gray |-> <<45000, 55000>>]

DigitVal(c) ==
    CASE c = "0" -> 0 [] c = "1" -> 1 [] c = "2" -> 2 [] c = "3" -> 3
      [] c = "4" -> 4 [] c = "5" -> 5 [] c = "6" -> 6 [] c = "7" -> 7
      [] c = "8" -> 8 [] c = "9" -> 9 [] OTHER -> 0 - 1

IsDigit(c) == DigitVal(c) >= 0

DigitChar(d) ==
    CASE d = 0 -> "0" [] d = 1 -> "1" [] d = 2 -> "2" [] d = 3 -> "3"
      [] d = 4 -> "4" [] d = 5 -> "5" [] d = 6 -> "6" [] d = 7 -> "7"
      [] d = 8 -> "8" [] d = 9 -> "9"

RECURSIVE Pow10(_)
Pow10(n) == IF n = 0 THEN 1 ELSE 10 * Pow10(n - 1)

\* int of the first n characters of a string of digits ("" gives 0)
RECURSIVE DigitsToInt(_, _)
DigitsToInt(s, n) ==
    IF n = 0 THEN 0 ELSE 10 * DigitsToInt(s, n - 1) + DigitVal(s[n])

\* str(n) for n >= 0
RECURSIVE IntToStr(_)
IntToStr(n) ==
    IF n < 10 THEN <<DigitChar(n)>>
    ELSE Append(IntToStr(n \div 10), DigitChar(n % 10))

\* the index of the first c in s, or 0
RECURSIVE IndexFrom(_, _, _)
IndexFrom(s, c, i) ==
    IF i > Len(s) THEN 0 ELSE IF s[i] = c THEN i ELSE IndexFrom(s, c, i + 1)

\* the index of the last c in s, or 0
RECURSIVE LastIndexFrom(_, _, _)
LastIndexFrom(s, c, i) ==
    IF i = 0 THEN 0 ELSE IF s[i] = c THEN i ELSE LastIndexFrom(s, c, i - 1)

\* float(value) on digits and periods: digits with at most one period and at
\* least one digit parse, to num / 10^scale; anything else raises ValueError.
\* A decimal of this length and the band edges round to distinct doubles in
\* the order of their exact values, so comparing the exact values is
\* comparing the floats.
py_float(value) ==
    LET digits == SelectSeq(value, IsDigit)
        dots == SelectSeq(value, LAMBDA c : c = ".")
        dot == IndexFrom(value, ".", 1)
    IN  [ok    |-> /\ Len(digits) + Len(dots) = Len(value)
                   /\ Len(dots) <= 1
                   /\ Len(digits) >= 1,
         num   |-> DigitsToInt(digits, Len(digits)),
         scale |-> IF dot = 0 THEN 0 ELSE Len(value) - dot]

\* v < edge and v > edge, v = num / 10^scale and edge in thousandths
Below(v, edge) == v.num * 1000 < edge * Pow10(v.scale)
Above(v, edge) == v.num * 1000 > edge * Pow10(v.scale)

color_for_stat_NoReverse(label, value) ==
    IF label \notin StatLabels THEN COLOR_GRAY
    ELSE IF ~py_float(value).ok THEN COLOR_GRAY
    ELSE IF Below(py_float(value), STAT_COLOR_RULES(label).gray[1]) THEN COLOR_BLUE
    ELSE IF Above(py_float(value), STAT_COLOR_RULES(label).gray[2]) THEN COLOR_RED
    ELSE COLOR_GRAY

color_for_stat(label, value) ==
    IF label \notin StatLabels THEN COLOR_GRAY
    ELSE LET min_g == STAT_COLOR_RULES(label).gray[1]
             max_g == STAT_COLOR_RULES(label).gray[2]
             reverse == STAT_COLOR_RULES(label).reverse
             v == py_float(value)
         IN  IF ~v.ok THEN COLOR_GRAY
             ELSE IF reverse
                  THEN IF Below(v, min_g) THEN COLOR_RED
                       ELSE IF Above(v, max_g) THEN COLOR_BLUE
                       ELSE COLOR_GRAY
                  ELSE IF Below(v, min_g) THEN COLOR_BLUE
                       ELSE IF Above(v, max_g) THEN COLOR_RED
                       ELSE COLOR_GRAY

color_for_grade(value) ==
    LET v == py_float(value)
    IN  IF ~v.ok THEN COLOR_GRAY
        ELSE IF Below(v, SCOUT_GRADE_RULES.gray[1]) THEN COLOR_BLUE
        ELSE IF Above(v, SCOUT_GRADE_RULES.gray[2]) THEN COLOR_RED
        ELSE COLOR_GRAY

\* f"{float(stat_val)*100:.1f}%": the value times 100 rounded to one decimal.
\* Round-half-up stands for the float's rounding; the raw values drawn here
\* hold no digit 5, so no value lies halfway between two tenths.
PercentText(v) ==
    LET tenths == (v.num * 1000 * 2 + Pow10(v.scale)) \div (2 * Pow10(v.scale))
    IN  IntToStr(tenths \div 10) \o <<".", DigitChar(tenths % 10), "%">>

\* f".{str(stat_val).split('.')[-1]}": a period and what follows the last period
FractionText(value) ==
    <<".">> \o SubSeq(value, LastIndexFrom(value, ".", Len(value)) + 1, Len(value))

\* stat_val_fmt of one projections row
format_stat(label, stat_val) ==
    IF label \in {"BB%", "K%"}
    THEN \* float(stat_val), parsed once
         CHOOSE text \in { IF v.ok THEN PercentText(v) ELSE stat_val
                             : v \in { py_float(stat_val) } } : TRUE
    ELSE IF label \in {"AVG", "OBP", "SLG"}
    THEN FractionText(stat_val)
    ELSE stat_val

----------------------------------------------------------------------------
(* One projections row: a label and a raw value, formatted and classified *)

StatChars == {"0", "1", "2", "4", "8", ".", "x"}

RawValues == UNION { [1..n -> StatChars] : n \in 0..MaxLen }

\* the labels of the projections panel, and one label without a rule
RowLabels == StatLabels \cup {"OFP"}

Unset == <<"unset">>

InitStat ==
    /\ stat \in [label : RowLabels, raw : RawValues, shown : {Unset}, color : {"unset"}]
    /\ chadwick_ids = EmptyDict
    /\ mlbam_cache = EmptyDict
    /\ call = NoCall
    /\ prev = NoPrev
    /\ threads = <<>>
    /\ tables = <<>>
    /\ card = <<>>
    /\ plan = <<>>

DrawStatRow ==
    /\ stat.color = "unset"
    /\ stat' = [stat EXCEPT !.shown = format_stat(stat.label, stat.raw),
                            !.color = color_for_stat(stat.label, stat.raw)]
    /\ UNCHANGED <<resolver_vars, threads, tables, card, plan>>

NextStat == DrawStatRow

SpecStat == InitStat /\ [][NextStat]_vars

\* C8: colour by the inclusive band: below is cold (blue), within is neutral
\* (gray), above is hot (red); K% exchanges cold and hot; a label without a
\* rule or a value that does not parse is neutral.
C8_BandClassification ==
    stat.color # "unset" =>
        LET v == py_float(stat.raw)
            known == stat.label \in StatLabels
            low == STAT_COLOR_RULES(stat.label).gray[1]
            high == STAT_COLOR_RULES(stat.label).gray[2]
            scaled == v.num * 1000
            unit == Pow10(v.scale)
            cold == IF stat.label = "K%" THEN COLOR_RED ELSE COLOR_BLUE
            hot == IF stat.label = "K%" THEN COLOR_BLUE ELSE COLOR_RED
        IN  /\ (~known \/ ~v.ok) => stat.color = COLOR_GRAY
            /\ (known /\ v.ok /\ scaled < low * unit) => stat.color = cold
            /\ (known /\ v.ok /\ low * unit <= scaled /\ scaled <= high * unit)
                   => stat.color = COLOR_GRAY
            /\ (known /\ v.ok /\ scaled > high * unit) => stat.color = hot

\* a K% value on the low edge of its band is neutral
C8_Witness ==
    /\ stat.label = "K%"
    /\ stat.raw = <<".", "1", "8", "4">>
    /\ stat.color = COLOR_GRAY

\* C9: percentages for K% and BB%, a period and the fractional digits for AVG,
\* OBP and SLG, the raw value for HR, SB and wRC+, and for every label a raw
\* value that is no number is shown unchanged.
C9_DisplayString ==
    stat.color # "unset" =>
        LET v == py_float(stat.raw)
            dot == IndexFrom(stat.raw, ".", 1)
            fraction == IF dot = 0 THEN <<>> ELSE SubSeq(stat.raw, dot + 1, Len(stat.raw))
            unit == Pow10(v.scale)
            pct == py_float(SubSeq(stat.shown, 1, Len(stat.shown) - 1))
        IN  /\ ~v.ok => stat.shown = stat.raw
            /\ (v.ok /\ stat.label \in {"K%", "BB%"})
                   => /\ stat.shown # <<>>
                      /\ stat.shown[Len(stat.shown)] = "%"
                      /\ pct.ok /\ pct.scale = 1
                      /\ 2 * (pct.num * unit - v.num * 1000) <= unit
                      /\ 2 * (v.num * 1000 - pct.num * unit) <= unit
            /\ (v.ok /\ stat.label \in {"AVG", "OBP", "SLG"})
                   => stat.shown = <<".">> \o fraction
            /\ stat.label \in {"HR", "SB", "wRC+"} => stat.shown = stat.raw

----------------------------------------------------------------------------
(* Layout constants and the rectangles draw_player_card computes *)

CARD_WIDTH == 900
CARD_HEIGHT == 920
MARGIN == 56
SIDE_MARGIN == MARGIN
TOP_MARGIN == 32
ROW_GAP == 12
BOX_GAP == 32
NAME_FONT_SIZE == 56
INFO_BOX_HEIGHT == 56
INFO_BOX_GAP == 16
PHOTO_BOX_BORDER == 3
BOTTOM_BOX_WIDTH == 392
BOTTOM_BOX_HEIGHT == 490
BOTTOM_BOX_BORDER == 7
FOOTER_TEXT_SIZE == 48

COLOR_WHITE == "white"
COLOR_BLACK == "black"

name_y == TOP_MARGIN
grid_left == SIDE_MARGIN
grid_top == name_y + NAME_FONT_SIZE + ROW_GAP + 6
grid_cell_w == (BOTTOM_BOX_WIDTH - INFO_BOX_GAP) \div 2
grid_cell_h == INFO_BOX_HEIGHT
grid_v_gap == 10

info_top_y == grid_top
info_box_left ==
    <<grid_left, info_top_y, grid_left + grid_cell_w, info_top_y + grid_cell_h>>
info_box_right ==
    <<grid_left + grid_cell_w + INFO_BOX_GAP, info_top_y,
      grid_left + 2 * grid_cell_w + INFO_BOX_GAP, info_top_y + grid_cell_h>>

double_box_h == 2 * grid_cell_h + grid_v_gap
double_box_y == info_top_y + grid_cell_h + grid_v_gap
rank_box_left ==
    <<grid_left, double_box_y, grid_left + grid_cell_w, double_box_y + double_box_h>>
rank_box_right ==
    <<grid_left + grid_cell_w + INFO_BOX_GAP, double_box_y,
      grid_left + 2 * grid_cell_w + INFO_BOX_GAP, double_box_y + double_box_h>>

info_section_bottom == double_box_y + double_box_h

logo_headshot_box_left == grid_left + 2 * grid_cell_w + 2 * INFO_BOX_GAP + BOX_GAP
logo_headshot_box_right == CARD_WIDTH - SIDE_MARGIN
logo_headshot_box_top == info_top_y
logo_headshot_box_bottom == info_section_bottom
logo_headshot_box ==
    <<logo_headshot_box_left, logo_headshot_box_top,
      logo_headshot_box_right, logo_headshot_box_bottom>>
logo_box_w == (logo_headshot_box_right - logo_headshot_box_left) \div 2
logo_box ==
    <<logo_headshot_box_left, logo_headshot_box_top,
      logo_headshot_box_left + logo_box_w, logo_headshot_box_bottom>>
headshot_box ==
    <<logo_headshot_box_left + logo_box_w, logo_headshot_box_top,
      logo_headshot_box_right, logo_headshot_box_bottom>>

grades_box_x_Overlapping == SIDE_MARGIN + BOTTOM_BOX_WIDTH - BOX_GAP

bottom_y == info_section_bottom + BOX_GAP
proj_box_x == SIDE_MARGIN
grades_box_x == proj_box_x + BOTTOM_BOX_WIDTH + BOX_GAP
proj_box ==
    <<proj_box_x, bottom_y, proj_box_x + BOTTOM_BOX_WIDTH, bottom_y + BOTTOM_BOX_HEIGHT>>
grades_box ==
    <<grades_box_x, bottom_y, grades_box_x + BOTTOM_BOX_WIDTH, bottom_y + BOTTOM_BOX_HEIGHT>>

title_h == 36
section_title_pad == 18

\* (label, key) of the projections rows, and the grade labels, in row order
stat_labels ==
    << <<"HR", "HR">>, <<"SB", "SB">>, <<"K%", "K.">>, <<"BB%", "BB.">>,
       <<"OBP", "OBP">>, <<"AVG", "AVG">>, <<"SLG", "SLG">>, <<"wRC+", "wRC.">> >>
SCOUT_GRADE_LABELS == <<"OFP", "Hit", "Power", "Field", "Arm", "Run">>

stat_start_y_TitleOverlap == bottom_y + section_title_pad + 2 * title_h - 6

stat_start_y == bottom_y + section_title_pad + 2 * title_h - 6 + 6
stat_row_height ==
    (BOTTOM_BOX_HEIGHT - (section_title_pad + 2 * title_h)) \div Len(stat_labels)
stat_col_x == proj_box_x + 36
stat_val_x == proj_box_x + BOTTOM_BOX_WIDTH - 172

grade_start_y == bottom_y + section_title_pad + 2 * title_h - 6 + 6
grade_row_height ==
    (BOTTOM_BOX_HEIGHT - (section_title_pad + 2 * title_h)) \div Len(SCOUT_GRADE_LABELS)
grade_label_x == grades_box_x + 36
grade_val_x == grades_box_x + BOTTOM_BOX_WIDTH - 172

footer_y == CARD_HEIGHT - FOOTER_TEXT_SIZE - 16
brand_logo_size == 92
brand_logo_x == CARD_WIDTH - SIDE_MARGIN - brand_logo_size + 4
brand_logo_y == CARD_HEIGHT - brand_logo_size - 8

----------------------------------------------------------------------------
(* What is drawn: the canvas is the sequence of the draw calls made on it.  *)
(* A text measured and centred by the code carries the box it is centred    *)
(* in; a text drawn at a point carries that point twice.                    *)

Op(part, kind, box, fill, outline, width, label, text) ==
    [part |-> part, kind |-> kind, box |-> box, fill |-> fill,
     outline |-> outline, width |-> width, label |-> label, text |-> text]

\* draw_box
draw_box(part, box, fill, outline, width) ==
    Op(part, "box", box, fill, outline, width, "", <<>>)

\* draw_centered, for a fixed title and for a value of the record
draw_centered(part, label, text, box, fill) ==
    Op(part, "centered", box, fill, "none", 0, label, text)

\* draw.text((x, y), ...)
draw_text(part, label, text, x, y, fill) ==
    Op(part, "text", <<x, y, x, y>>, fill, "none", 0, label, text)

\* img.paste(bitmap, (x, y), bitmap) of a w by h bitmap: no outline is drawn
paste(part, x, y, w, h) ==
    Op(part, "paste", <<x, y, x + w, y + h>>, "bitmap", "none", 0, "", <<>>)

\* draw_rank_box_vertical: the box, the title at its top, the number below
draw_rank_box_vertical(part, box, title, number) ==
    << draw_box(part, box, COLOR_WHITE, COLOR_BLACK, 4),
       Op(part, "centered", <<box[1], box[2] + 10, box[3], box[2] + 10>>,
          COLOR_BLACK, "none", 0, title, <<>>),
       Op(part, "centered", box, COLOR_BLACK, "none", 0, "", number) >>

\* resize_and_center: the size and the offset of the scaled bitmap.  The
\* scale is min(box_w / img_w, box_h / img_h); int() truncates the product.
resize_and_center(img, target_box) ==
    LET box_w == target_box[3] - target_box[1]
        box_h == target_box[4] - target_box[2]
        img_w == img[1]
        img_h == img[2]
        by_width == box_w * img_h <= box_h * img_w
        new_w == IF by_width THEN box_w ELSE (img_w * box_h) \div img_h
        new_h == IF by_width THEN (img_h * box_w) \div img_w ELSE box_h
    IN  [w |-> new_w, h |-> new_h,
         x |-> target_box[1] + (box_w - new_w) \div 2,
         y |-> target_box[2] + (box_h - new_h) \div 2]

\* dict.get(key, default)
Get(d, key, default) == IF key \in DOMAIN d THEN d[key] ELSE default

----------------------------------------------------------------------------
(* Renders running concurrently on one shared cache.  Each thread runs      *)
(* get_mlbam_id statement by statement; a dict read or write is one step.   *)

Threads == 1..MaxThreads

Idle == [pc |-> "idle", name |-> <<>>, team |-> "", id |-> NoId]

InitConc ==
    /\ chadwick_ids \in Registries
    /\ mlbam_cache = load_mlbam_cache(<<>>)
    /\ threads = [t \in Threads |-> Idle]
    /\ call = NoCall
    /\ prev = NoPrev
    /\ stat = NoStat
    /\ tables = <<>>
    /\ card = <<>>
    /\ plan = <<>>

\* draw_player_card reaches its get_mlbam_id call
Enter(t, name, team) ==
    /\ threads[t].pc = "idle"
    /\ threads' = [threads EXCEPT ![t] =
                      [pc |-> "registry", name |-> name, team |-> team, id |-> NoId]]
    /\ UNCHANGED <<chadwick_ids, mlbam_cache, call, prev, stat, tables, card, plan>>

\* step 1: the registry lookup, and on a hit the store and the return
StepRegistry(t) ==
    LET th == threads[t]
        id == RegistryLookup(chadwick_ids, th.name)
    IN  /\ th.pc = "registry"
        /\ IF id # NoId
           THEN /\ mlbam_cache' = Put(mlbam_cache, str_upper(th.name), id)
                /\ threads' = [threads EXCEPT ![t].pc = "return", ![t].id = id]
           ELSE /\ mlbam_cache' = mlbam_cache
                /\ threads' = [threads EXCEPT ![t].pc = "cache"]
        /\ UNCHANGED <<chadwick_ids, call, prev, stat, tables, card, plan>>

\* step 2: the cache lookup; a one-token name ends the call here
StepCache(t) ==
    LET th == threads[t]
        key == str_upper(th.name)
    IN  /\ th.pc = "cache"
        /\ threads' =
              IF key \in DOMAIN mlbam_cache
              THEN [threads EXCEPT ![t].pc = "return", ![t].id = mlbam_cache[key]]
              ELSE IF Len(str_split(str_strip(th.name))) < 2
              THEN [threads EXCEPT ![t].pc = "return"]
              ELSE [threads EXCEPT ![t].pc = "remote"]
        /\ UNCHANGED <<chadwick_ids, mlbam_cache, call, prev, stat, tables, card, plan>>

\* step 3: the remote lookup and the choice of the row
StepRemote(t, service) ==
    LET th == threads[t]
        parts == str_split(str_strip(th.name))
        lookup == ServiceRows(parts[Len(parts)], parts[1])
    IN  /\ th.pc = "remote"
        /\ threads' =
              IF service = "down" \/ lookup = <<>>
              THEN [threads EXCEPT ![t].pc = "return"]
              ELSE [threads EXCEPT ![t].pc = "store",
                                   ![t].id = PickRemoteId(lookup, th.team)]
        /\ UNCHANGED <<chadwick_ids, mlbam_cache, call, prev, stat, tables, card, plan>>

\* cache[key] = str(mlbam_id)
StepStore(t) ==
    LET th == threads[t]
    IN  /\ th.pc = "store"
        /\ mlbam_cache' = Put(mlbam_cache, str_upper(th.name), th.id)
        /\ threads' = [threads EXCEPT ![t].pc = "return"]
        /\ UNCHANGED <<chadwick_ids, call, prev, stat, tables, card, plan>>

\* the call returns and the render ends
Return(t) ==
    /\ threads[t].pc = "return"
    /\ threads' = [threads EXCEPT ![t] = Idle]
    /\ UNCHANGED <<chadwick_ids, mlbam_cache, call, prev, stat, tables, card, plan>>

NextConc ==
    \E t \in Threads :
        \/ \E name \in Names, team \in Teams : Enter(t, name, team)
        \/ StepRegistry(t)
        \/ StepCache(t)
        \/ \E service \in {"up", "down"} : StepRemote(t, service)
        \/ StepStore(t)
        \/ Return(t)

SpecConc == InitConc /\ [][NextConc]_vars

\* C7: whichever writer wrote last, the value stored for a name is the same,
\* and no entry is lost: no step changes or removes an entry of the cache.
C7_SameValueFromAnyWriter ==
    [][ \A k \in DOMAIN mlbam_cache :
            /\ k \in DOMAIN mlbam_cache'
            /\ mlbam_cache'[k] = mlbam_cache[k] ]_vars

----------------------------------------------------------------------------
(* The reference tables and the roster rows handed to draw_player_card *)

\* the table key of the one player the tables may know: "J D"
KnownKey == <<"J", " ", "D">>

\* os_grades[name]: label -> raw grade, as read from the scouting table
KnownGrades ==
    [label \in {"OFP", "Hit", "Power", "Field", "Arm", "Run"} |->
        CASE label = "OFP"   -> <<"6", "0">>
          [] label = "Hit"   -> <<"4", "0">>
          [] label = "Power" -> <<"5", "5">>
          [] label = "Field" -> <<>>
          [] label = "Arm"   -> <<"4", "5", ".", "5">>
          [] label = "Run"   -> <<"x">>]

NoGrades == [label \in {} |-> <<>>]

\* every table either knows the player or is empty; one logo per known team
TableChoices ==
    [top100    : {EmptyDict, [k \in {KnownKey} |-> <<"7">>]},
     plive     : {EmptyDict, [k \in {KnownKey} |-> <<"1">>]},
     positions : {EmptyDict, [k \in {KnownKey} |-> <<"O", "F">>]},
     grades    : {EmptyDict, [k \in {KnownKey} |-> KnownGrades]},
     logos     : {[t \in {"Y"} |-> "url"]}]

\* the stat fields of a full roster row, and of a row that has none of them
FullStats ==
    [key \in {"HR", "SB", "K.", "BB.", "OBP", "AVG", "SLG", "wRC."} |->
        CASE key = "HR"   -> <<"2", "4">>
          [] key = "SB"   -> <<"8">>
          [] key = "K."   -> <<"0", ".", "1", "8", "4">>
          [] key = "BB."  -> <<"0", ".", "1", "2">>
          [] key = "OBP"  -> <<"0", ".", "4", "0", "1">>
          [] key = "AVG"  -> <<"0", ".", "2", "8", "7">>
          [] key = "SLG"  -> <<"x">>
          [] key = "wRC." -> <<"1", "1", "8">>]

NoStats == [key \in {} |-> <<>>]

\* a roster row: with Team, Level and stats, or with the Name alone
Roster ==
    { [Name |-> n, Team |-> "y", Level |-> <<"A", "A">>, stats |-> FullStats]
        : n \in { <<"j", " ", "d">>, <<"d", " ", "j">> } }
    \cup
    { [Name |-> n, Team |-> "", Level |-> <<"L", "E", "V", "E", "L">>, stats |-> NoStats]
        : n \in { <<"j", " ", "d">>, <<"d", " ", "j">>, <<"j">> } }

\* what an HTTP fetch of a bitmap gives: a w by h image, or an error
\* (network error, timeout, bytes that are no image)
FetchError == [status |-> "error", size |-> <<0, 0>>]
HeadshotResponses ==
    { FetchError, [status |-> "ok", size |-> <<213, 320>>],
                  [status |-> "ok", size |-> <<320, 213>>] }
LogoResponses == { FetchError, [status |-> "ok", size |-> <<500, 500>>] }

fetch_headshot_image_Raises(response) ==
    [img |-> response, raised |-> response.status = "error"]

\* fetch_headshot_image: the image, or None when anything goes wrong
fetch_headshot_image(response) ==
    [img |-> response, raised |-> FALSE]

\* fetch_logo_image: the image resized to size by size, or None
fetch_logo_image(response, size) ==
    [img |-> IF response.status = "ok"
             THEN [status |-> "ok", size |-> <<size, size>>]
             ELSE response,
     raised |-> FALSE]

----------------------------------------------------------------------------
(* draw_player_card, stage by stage *)

Stages ==
    << "Start", "DrawName", "DrawInfoGrid", "DrawRankPanels", "DrawLogoAndHeadshot",
       "DrawProjectionsPanel", "DrawGradesPanel", "DrawFooterAndBrand", "Done" >>

player_name_upper(player) == str_upper(str_strip(player.Name))

team_abbr(player) == UpperChar(player.Team)

NameOps(player) ==
    << Op("name", "centered", <<0, name_y, CARD_WIDTH, name_y>>, COLOR_WHITE,
          "none", 0, "", str_upper(player.Name)) >>

InfoGridOps(player, tb) ==
    << draw_box("info_left", info_box_left, COLOR_WHITE, COLOR_BLACK, 4),
       draw_centered("position", "", Get(tb.positions, player_name_upper(player), <<>>),
                     info_box_left, COLOR_BLACK),
       draw_box("info_right", info_box_right, COLOR_WHITE, COLOR_BLACK, 4),
       draw_centered("level", "", player.Level, info_box_right, COLOR_BLACK) >>

RankPanelOps(player, tb) ==
    draw_rank_box_vertical("rank_left", rank_box_left, "TOP 100",
                           Get(tb.top100, player_name_upper(player), <<"N", "R">>))
    \o
    draw_rank_box_vertical("rank_right", rank_box_right, "PLIVE+ RANK",
                           Get(tb.plive, player_name_upper(player), <<"N", "R">>))

\* the team logo, centred in the left half; nothing without a URL or a bitmap
LogoOps(player, tb, logo_response) ==
    LET smaller == IF logo_box[3] - logo_box[1] < logo_box[4] - logo_box[2]
                   THEN logo_box[3] - logo_box[1]
                   ELSE logo_box[4] - logo_box[2]
        logo_size == (smaller * 82) \div 100
        logo_img == fetch_logo_image(logo_response, logo_size).img
        lx == logo_box[1] + (logo_box[3] - logo_box[1] - logo_size) \div 2
        ly == logo_box[2] + (logo_box[4] - logo_box[2] - logo_size) \div 2
    IN  IF team_abbr(player) \in DOMAIN tb.logos /\ logo_img.status = "ok"
        THEN << paste("logo", lx, ly, logo_size, logo_size) >>
        ELSE <<>>

HeadshotOps_WideBox(mlbam_id, headshot_img) ==
    IF mlbam_id # NoId /\ headshot_img.status = "ok"
    THEN LET r == resize_and_center(headshot_img.size, headshot_box)
         IN  << paste("headshot", r.x, r.y, r.w, r.h) >>
    ELSE << draw_box("headshot", logo_headshot_box, COLOR_GRAY, COLOR_BLACK,
                     PHOTO_BOX_BORDER) >>

\* the headshot scaled into the right half, or the gray placeholder box
HeadshotOps(mlbam_id, headshot_img) ==
    IF mlbam_id # NoId /\ headshot_img.status = "ok"
    THEN LET r == resize_and_center(headshot_img.size, headshot_box)
         IN  << paste("headshot", r.x, r.y, r.w, r.h) >>
    ELSE << draw_box("headshot", headshot_box, COLOR_GRAY, COLOR_BLACK,
                     PHOTO_BOX_BORDER) >>

TitleOps(part, box_x, title1, title2) ==
    << draw_centered(part, title1, <<>>,
                     <<box_x, bottom_y + section_title_pad,
                       box_x + BOTTOM_BOX_WIDTH, bottom_y + section_title_pad + title_h>>,
                     COLOR_BLACK),
       draw_centered(part, title2, <<>>,
                     <<box_x, bottom_y + section_title_pad + title_h - 6,
                       box_x + BOTTOM_BOX_WIDTH,
                       bottom_y + section_title_pad + 2 * title_h - 6>>,
                     COLOR_BLACK) >>

\* row i (from 0) of the projections panel: the label, then the value
StatRowOps(player, i) ==
    LET label == stat_labels[i + 1][1]
        key == stat_labels[i + 1][2]
        y0 == stat_start_y + i * stat_row_height
        Row(stat_val) ==
            << draw_text("stat_label", label, <<>>, stat_col_x, y0, COLOR_BLACK),
               draw_text("stat_value", label, format_stat(label, stat_val), stat_val_x,
                         y0, color_for_stat(label, stat_val)) >>
    IN  \* stat_val = player.get(key, ''), read once
        CHOOSE row \in { Row(stat_val) : stat_val \in { Get(player.stats, key, <<>>) } } :
            TRUE

\* the two draw calls of every row, in row order
RowsOf(n, RowOps(_)) ==
    [j \in 1..(2 * n) |-> RowOps((j - 1) \div 2)[((j - 1) % 2) + 1]]

ProjectionsOps(player) ==
    << draw_box("proj_box", proj_box, COLOR_WHITE, COLOR_BLACK, BOTTOM_BOX_BORDER) >>
    \o TitleOps("proj_title", proj_box_x, "PLIVE+ PEAK", "PROJECTIONS")
    \o RowsOf(Len(stat_labels), LAMBDA i : StatRowOps(player, i))

\* value.replace('.', '', 1).isdigit(), for a non-empty value
IsPlainNumber(value) ==
    LET dot == IndexFrom(value, ".", 1)
        rest == IF dot = 0 THEN value
                ELSE SubSeq(value, 1, dot - 1) \o SubSeq(value, dot + 1, Len(value))
    IN  value # <<>> /\ rest # <<>> /\ \A k \in 1..Len(rest) : IsDigit(rest[k])

\* row i (from 0) of the grades panel
GradeRowOps(player_grades, i) ==
    LET label == SCOUT_GRADE_LABELS[i + 1]
        y0 == grade_start_y + i * grade_row_height
        Row(value) ==
            << draw_text("grade_label", label, <<>>, grade_label_x, y0, COLOR_BLACK),
               draw_text("grade_value", label, value, grade_val_x, y0,
                         IF IsPlainNumber(value) THEN color_for_grade(value)
                         ELSE COLOR_GRAY) >>
    IN  \* value = player_grades.get(label, ''), read once
        CHOOSE row \in { Row(value) : value \in { Get(player_grades, label, <<>>) } } :
            TRUE

GradesOps(player, tb) ==
    << draw_box("grades_box", grades_box, COLOR_WHITE, COLOR_BLACK, BOTTOM_BOX_BORDER) >>
    \o TitleOps("grades_title", grades_box_x, "PROSPECTS LIVE", "SCOUT GRADES")
    \o RowsOf(Len(SCOUT_GRADE_LABELS),
              LAMBDA i : GradeRowOps(Get(tb.grades, player_name_upper(player), NoGrades), i))

\* the footer text, and the brand mark when its file loads
FooterOps(brand_file) ==
    << Op("footer", "centered", <<0, footer_y, CARD_WIDTH, footer_y>>, COLOR_WHITE,
          "none", 0, "prospects live", <<>>) >>
    \o IF brand_file = "ok"
       THEN << paste("brand", brand_logo_x, brand_logo_y, brand_logo_size, brand_logo_size) >>
       ELSE <<>>

NoCard ==
    [pc |-> "Idle", player |-> [Name |-> <<>>, Team |-> "", Level |-> <<>>, stats |-> NoStats],
     size |-> <<0, 0>>, canvas |-> <<>>, mlbam_id |-> NoId,
     headshot |-> "none"]

InitRender ==
    /\ chadwick_ids \in Registries
    /\ mlbam_cache = load_mlbam_cache(<<>>)
    /\ tables \in TableChoices
    /\ card = NoCard
    /\ plan = <<>>
    /\ call = NoCall
    /\ prev = NoPrev
    /\ stat = NoStat
    /\ threads = <<>>

Kept == <<chadwick_ids, call, prev, stat, threads, tables, plan>>

\* a stage that only draws: from stage `from` to stage `to`
Draw(from, to, ops) ==
    /\ card.pc = from
    /\ \E drawn \in {ops} :
          card' = [card EXCEPT !.pc = to, !.canvas = card.canvas \o drawn]
    /\ UNCHANGED <<Kept, mlbam_cache>>

\* the call: a fresh canvas of the card's size, the fonts
Start(player) ==
    /\ card.pc \in {"Idle", "Done"}
    /\ card' = [NoCard EXCEPT !.pc = "Start", !.player = player,
                              !.size = <<CARD_WIDTH, CARD_HEIGHT>>]
    /\ UNCHANGED <<Kept, mlbam_cache>>

DrawName == Draw("Start", "DrawName", NameOps(card.player))

DrawInfoGrid == Draw("DrawName", "DrawInfoGrid", InfoGridOps(card.player, tables))

DrawRankPanels == Draw("DrawInfoGrid", "DrawRankPanels", RankPanelOps(card.player, tables))

\* the logo fetch, the identity lookup (service "up", or "down" when
\* playerid_lookup raises), the headshot fetch and the headshot or its
\* placeholder; an exception that escapes ends the render without a canvas
DrawLogoAndHeadshot ==
    /\ card.pc = "DrawRankPanels"
    /\ \E service \in {"up", "down"} :
       \E r \in { get_mlbam_id(card.player.Name, team_abbr(card.player),
                                mlbam_cache, chadwick_ids, service) } :
       \E logo_response \in LogoResponses, headshot_response \in HeadshotResponses :
       \E f \in { fetch_headshot_image(headshot_response) } :
          LET fetched == r.result # NoId
          IN  /\ mlbam_cache' = r.cache
              /\ card' =
                    IF r.raised \/ (fetched /\ f.raised)
                    THEN [card EXCEPT !.pc = "Raised"]
                    ELSE [card EXCEPT
                            !.pc = "DrawLogoAndHeadshot",
                            !.mlbam_id = r.result,
                            !.headshot = IF fetched THEN f.img.status ELSE "none",
                            !.canvas = card.canvas
                                       \o LogoOps(card.player, tables, logo_response)
                                       \o HeadshotOps(r.result, f.img)]
    /\ UNCHANGED Kept

DrawProjectionsPanel ==
    Draw("DrawLogoAndHeadshot", "DrawProjectionsPanel", ProjectionsOps(card.player))

DrawGradesPanel ==
    Draw("DrawProjectionsPanel", "DrawGradesPanel", GradesOps(card.player, tables))

DrawFooterAndBrand(brand_file) ==
    Draw("DrawGradesPanel", "DrawFooterAndBrand", FooterOps(brand_file))

\* return img
Done == Draw("DrawFooterAndBrand", "Done", <<>>)

Step ==
    \/ DrawName
    \/ DrawInfoGrid
    \/ DrawRankPanels
    \/ DrawLogoAndHeadshot
    \/ DrawProjectionsPanel
    \/ DrawGradesPanel
    \/ \E brand_file \in {"ok", "missing"} : DrawFooterAndBrand(brand_file)
    \/ Done

NextRender ==
    \/ \E player \in Roster : Start(player)
    \/ Step

\* one render is one sequential pass: once called, it keeps running
SpecRender == InitRender /\ [][NextRender]_vars /\ WF_vars(Step)

----------------------------------------------------------------------------
(* Claims about draw_player_card *)

\* the stage that follows pc on the single path; a new call follows Done
StageAfter(pc) ==
    IF pc \in {"Idle", "Done"} THEN "Start"
    ELSE IF \E i \in 1..(Len(Stages) - 1) : Stages[i] = pc
    THEN Stages[(CHOOSE i \in 1..(Len(Stages) - 1) : Stages[i] = pc) + 1]
    ELSE "none"

Drawn(part) == SelectSeq(card.canvas, LAMBDA op : op.part = part)

Containers ==
    {"name", "info_left", "info_right", "rank_left", "rank_right", "headshot",
     "proj_box", "grades_box", "footer"}

\* C5: every call runs the stages in the fixed order and skips none, reaches
\* Done, and returns a canvas of the card's size with every container and
\* every row drawn, whatever is absent and whichever fetch fails.
C5_AllStagesThenDone ==
    /\ [][card'.pc = StageAfter(card.pc)]_card
    /\ [](card.pc = "Start" => <>(card.pc = "Done"))
    /\ [](card.pc = "Done" =>
            /\ card.size = <<CARD_WIDTH, CARD_HEIGHT>>
            /\ \A part \in Containers : Drawn(part) # <<>>
            /\ Len(Drawn("stat_value")) = Len(stat_labels)
            /\ Len(Drawn("grade_value")) = Len(SCOUT_GRADE_LABELS))

\* a finished card of a player with no team, no rank, no grades and no identity
C5_Witness ==
    /\ card.pc = "Done"
    /\ card.player.Team = ""
    /\ card.mlbam_id = NoId
    /\ tables.top100 = EmptyDict /\ tables.plive = EmptyDict
    /\ tables.grades = EmptyDict /\ tables.positions = EmptyDict

Within(box, outer) ==
    /\ outer[1] <= box[1] /\ outer[2] <= box[2]
    /\ box[3] <= outer[3] /\ box[4] <= outer[4]

\* the draw calls that touch the canvas outside the headshot rectangle
Outside(canvas) == SelectSeq(canvas, LAMBDA op : ~Within(op.box, headshot_box))

\* the canvas of the same render had the headshot fetch returned img
WithHeadshot(canvas, img) ==
    [i \in 1..Len(canvas) |->
        IF canvas[i].part = "headshot"
        THEN HeadshotOps(card.mlbam_id, img)[1]
        ELSE canvas[i]]

PhotoResponses == { r \in HeadshotResponses : r.status = "ok" }

\* C6 as stated: a failed headshot fetch does not abort the render, the
\* placeholder fills the headshot rectangle with the border styling of a
\* successful photo box, and the canvas outside the rectangle is the one of a
\* successful fetch.
C6_PlaceholderStyledAsPhoto ==
    /\ card.pc # "Raised"
    /\ card.headshot = "error" =>
          /\ Len(Drawn("headshot")) = 1
          /\ Drawn("headshot")[1].kind = "box"
          /\ Drawn("headshot")[1].box = headshot_box
          /\ \A img \in PhotoResponses :
                /\ Drawn("headshot")[1].outline = HeadshotOps(card.mlbam_id, img)[1].outline
                /\ Drawn("headshot")[1].width = HeadshotOps(card.mlbam_id, img)[1].width
                /\ Outside(card.canvas) = Outside(WithHeadshot(card.canvas, img))

\* C6 amended: a failed headshot fetch does not abort the render; the headshot
\* rectangle is filled gray with a black outline of PHOTO_BOX_BORDER pixels
\* (a successful photo is pasted without any box or outline), and the canvas
\* outside the rectangle is the one of a successful fetch.
C6_PlaceholderGrayBox ==
    /\ card.pc # "Raised"
    /\ card.headshot = "error" =>
          /\ Len(Drawn("headshot")) = 1
          /\ Drawn("headshot")[1] =
                draw_box("headshot", headshot_box, COLOR_GRAY, COLOR_BLACK, PHOTO_BOX_BORDER)
          /\ \A img \in PhotoResponses :
                /\ HeadshotOps(card.mlbam_id, img)[1].kind = "paste"
                /\ HeadshotOps(card.mlbam_id, img)[1].outline = "none"
                /\ Outside(card.canvas) = Outside(WithHeadshot(card.canvas, img))

C6_Witness ==
    /\ card.pc = "Done"
    /\ card.mlbam_id # NoId
    /\ card.headshot = "error"

\* the rows of a panel: n rows whose starts are one row height apart, the row
\* height being the interior height divided by n; the last row runs to the
\* panel's bottom edge and so takes the remainder of the division
RowsFill(anchors, n, box) ==
    LET interior == BOTTOM_BOX_HEIGHT - (section_title_pad + 2 * title_h)
        h == interior \div n
        last == box[4] - anchors[n].box[2]
    IN  /\ Len(anchors) = n
        /\ \A i \in 1..(n - 1) : anchors[i + 1].box[2] - anchors[i].box[2] = h
        /\ last = h + (interior % n)
        /\ (n - 1) * h + last = interior

\* C10: in the projections panel (8 rows) and the grades panel (6 rows) the
\* row heights sum to the panel's interior height, the last row absorbing the
\* remainder and ending at the panel's bottom edge.
C10_RowsFillPanel ==
    /\ card.pc \in {"DrawProjectionsPanel", "DrawGradesPanel", "DrawFooterAndBrand", "Done"}
          => RowsFill(Drawn("stat_label"), Len(stat_labels), proj_box)
    /\ card.pc \in {"DrawGradesPanel", "DrawFooterAndBrand", "Done"}
          => RowsFill(Drawn("grade_label"), Len(SCOUT_GRADE_LABELS), grades_box)

\* the grades panel is drawn and its division leaves a remainder
C10_Witness ==
    /\ card.pc = "DrawGradesPanel"
    /\ Len(Drawn("grade_label")) = Len(SCOUT_GRADE_LABELS)
    /\ (BOTTOM_BOX_HEIGHT - (section_title_pad + 2 * title_h)) % Len(SCOUT_GRADE_LABELS) # 0

----------------------------------------------------------------------------
(* What a call that returns an id leaves in the cache *)

\* C13: when a call returns an id, whichever source gave it, the cache on
\* return maps the upper-cased name the call was given to that id, and every
\* other key of the cache is as it was: none added, none changed, none removed.
C13_ReturnedIdIsCached ==
    [][ call'.result # NoId
            => LET key == str_upper(call'.name)
               IN  /\ key \in DOMAIN mlbam_cache'
                   /\ mlbam_cache'[key] = call'.result
                   /\ DOMAIN mlbam_cache' = DOMAIN mlbam_cache \cup {key}
                   /\ \A k \in DOMAIN mlbam_cache \ {key} :
                          mlbam_cache'[k] = mlbam_cache[k] ]_vars

\* the remote service gave the id of a name written in lower case, and the
\* cache holds it under the upper-cased name next to an older entry
C13_Witness ==
    /\ call.remote = "found"
    /\ call.result # NoId
    /\ call.name # str_upper(call.name)
    /\ str_upper(call.name) \in DOMAIN mlbam_cache
    /\ mlbam_cache[str_upper(call.name)] = call.result
    /\ Cardinality(DOMAIN mlbam_cache) >= 2

----------------------------------------------------------------------------
(* The rectangles of sibling elements *)

\* the rectangles draw_player_card computes for the sibling elements
SiblingRects ==
    [info_left  |-> info_box_left,  info_right |-> info_box_right,
     rank_left  |-> rank_box_left,  rank_right |-> rank_box_right,
     logo       |-> logo_box,       headshot   |-> headshot_box,
     proj_box   |-> proj_box,       grades_box |-> grades_box]

\* two rectangles (x0, y0, x1, y1) share a region of positive area; two
\* rectangles that only touch along an edge do not
Overlap(a, b) ==
    /\ a[1] < b[3] /\ b[1] < a[3]
    /\ a[2] < b[4] /\ b[2] < a[4]

\* the pixels an operation covers, as a half-open rectangle: ImageDraw's
\* rectangle includes its right and bottom edge, a pasted bitmap of w by h
\* pixels ends before x + w and y + h
PixelsOf(op) ==
    IF op.kind = "box"
    THEN <<op.box[1], op.box[2], op.box[3] + 1, op.box[4] + 1>>
    ELSE op.box

\* the boxes and bitmaps drawn so far for the sibling elements
SiblingOps ==
    SelectSeq(card.canvas,
              LAMBDA op : op.part \in DOMAIN SiblingRects /\ op.kind \in {"box", "paste"})

\* C11: no two of the rectangles computed for the sibling elements (two info
\* cells, two rank boxes, logo box, headshot box, projections panel, grades
\* panel) overlap, nothing drawn for one of them covers a pixel drawn for
\* another, and the info grid, the rank boxes and the projections panel have
\* their left edge at the side margin.
C11_SiblingsDisjoint ==
    /\ \A p, q \in DOMAIN SiblingRects :
          p # q => ~Overlap(SiblingRects[p], SiblingRects[q])
    /\ \A i, j \in 1..Len(SiblingOps) :
          SiblingOps[i].part # SiblingOps[j].part
             => ~Overlap(PixelsOf(SiblingOps[i]), PixelsOf(SiblingOps[j]))
    /\ info_box_left[1] = SIDE_MARGIN
    /\ rank_box_left[1] = SIDE_MARGIN
    /\ proj_box[1] = SIDE_MARGIN
    /\ grid_left = SIDE_MARGIN

\* a finished card on which all eight sibling elements were drawn, the logo
\* and the headshot as bitmaps
C11_Witness ==
    /\ card.pc = "Done"
    /\ { SiblingOps[i].part : i \in 1..Len(SiblingOps) } = DOMAIN SiblingRects
    /\ Drawn("logo")[1].kind = "paste"
    /\ Drawn("headshot")[1].kind = "paste"

----------------------------------------------------------------------------
(* The geometry of draw_player_card under other layout constants *)

\* the layout constants the rectangles are computed from, as the module sets them
Layout ==
    [CARD_WIDTH |-> CARD_WIDTH, SIDE_MARGIN |-> SIDE_MARGIN, TOP_MARGIN |-> TOP_MARGIN,
     ROW_GAP |-> ROW_GAP, BOX_GAP |-> BOX_GAP, NAME_FONT_SIZE |-> NAME_FONT_SIZE,
     INFO_BOX_HEIGHT |-> INFO_BOX_HEIGHT, INFO_BOX_GAP |-> INFO_BOX_GAP,
     BOTTOM_BOX_WIDTH |-> BOTTOM_BOX_WIDTH, BOTTOM_BOX_HEIGHT |-> BOTTOM_BOX_HEIGHT]

\* the module's constants, and edits of four of them that leave a cell, a rank
\* box, the headshot area or a panel with no width or height, or a negative one
Layouts ==
    { [Layout EXCEPT !.BOTTOM_BOX_WIDTH = w, !.INFO_BOX_HEIGHT = h,
                     !.CARD_WIDTH = cw, !.BOTTOM_BOX_HEIGHT = bh]
        : w \in {BOTTOM_BOX_WIDTH, INFO_BOX_GAP, 0},
          h \in {INFO_BOX_HEIGHT, 0, 0 - 5},
          cw \in {CARD_WIDTH, 552, 400},
          bh \in {BOTTOM_BOX_HEIGHT, 0} }

\* the rectangles draw_player_card computes, from the constants L
PlanRects(L) ==
    LET gl    == L.SIDE_MARGIN
        gt    == L.TOP_MARGIN + L.NAME_FONT_SIZE + L.ROW_GAP + 6
        cw    == (L.BOTTOM_BOX_WIDTH - L.INFO_BOX_GAP) \div 2
        ch    == L.INFO_BOX_HEIGHT
        dh    == 2 * ch + grid_v_gap
        dy    == gt + ch + grid_v_gap
        isb   == dy + dh
        lhl   == gl + 2 * cw + 2 * L.INFO_BOX_GAP + L.BOX_GAP
        lhr   == L.CARD_WIDTH - L.SIDE_MARGIN
        lw    == (lhr - lhl) \div 2
        by    == isb + L.BOX_GAP
        px    == L.SIDE_MARGIN
        gx    == px + L.BOTTOM_BOX_WIDTH + L.BOX_GAP
    IN  [info_left  |-> <<gl, gt, gl + cw, gt + ch>>,
         info_right |-> <<gl + cw + L.INFO_BOX_GAP, gt,
                          gl + 2 * cw + L.INFO_BOX_GAP, gt + ch>>,
         rank_left  |-> <<gl, dy, gl + cw, dy + dh>>,
         rank_right |-> <<gl + cw + L.INFO_BOX_GAP, dy,
                          gl + 2 * cw + L.INFO_BOX_GAP, dy + dh>>,
         logo       |-> <<lhl, gt, lhl + lw, isb>>,
         headshot   |-> <<lhl + lw, gt, lhr, isb>>,
         proj_box   |-> <<px, by, px + L.BOTTOM_BOX_WIDTH, by + L.BOTTOM_BOX_HEIGHT>>,
         grades_box |-> <<gx, by, gx + L.BOTTOM_BOX_WIDTH, by + L.BOTTOM_BOX_HEIGHT>>]

\* a rectangle of non-positive width or height
Degenerate(box) == box[3] - box[1] <= 0 \/ box[4] - box[2] <= 0

\* x1 < x0 or y1 < y0: ImageDraw.rectangle raises ValueError in recent
\* releases of the imaging library and draws in older ones; which one is
\* installed is fixed for the run (rejects_inverted)
Inverted(box) == box[3] < box[1] \/ box[4] < box[2]

\* the geometry pass of one render of a player with no team and no identity
InitPlan ==
    /\ plan \in { [layout |-> L, rejects_inverted |-> strict, pc |-> "Start",
                    drawn |-> <<>>] : L \in Layouts, strict \in BOOLEAN }
    /\ chadwick_ids = EmptyDict
    /\ mlbam_cache = EmptyDict
    /\ call = NoCall
    /\ prev = NoPrev
    /\ stat = NoStat
    /\ threads = <<>>
    /\ tables = <<>>
    /\ card = <<>>

\* draw_box on each of parts in turn: all are drawn, or a library that
\* rejects inverted rectangles raises on the first one and the render ends
\* there.  Nothing in draw_player_card looks at a rectangle's width or height
\* before drawing it.
PlanBoxes(from, to, parts) ==
    /\ plan.pc = from
    /\ \E n \in 0..Len(parts) :
          LET rects == PlanRects(plan.layout)
              boxes == [i \in 1..n |-> [part |-> parts[i], box |-> rects[parts[i]]]]
              raises(i) == plan.rejects_inverted /\ Inverted(rects[parts[i]])
          IN  /\ \A i \in 1..n : ~raises(i)
              /\ n < Len(parts) => raises(n + 1)
              /\ plan' = [plan EXCEPT
                             !.pc = IF n = Len(parts) THEN to ELSE "ValueError",
                             !.drawn = plan.drawn \o boxes]
    /\ UNCHANGED <<chadwick_ids, mlbam_cache, call, prev, stat, threads, tables, card>>

PlanInfoGrid == PlanBoxes("Start", "InfoGrid", <<"info_left", "info_right">>)

PlanRankBoxes == PlanBoxes("InfoGrid", "RankBoxes", <<"rank_left", "rank_right">>)

\* no identity: the placeholder is drawn on headshot_box
PlanHeadshot == PlanBoxes("RankBoxes", "Headshot", <<"headshot">>)

PlanPanels == PlanBoxes("Headshot", "Done", <<"proj_box", "grades_box">>)

NextPlan == PlanInfoGrid \/ PlanRankBoxes \/ PlanHeadshot \/ PlanPanels

SpecPlan == InitPlan /\ [][NextPlan]_vars

\* C12: when the layout constants give some computed rectangle a non-positive
\* width or height, the render gets no further than an error that aborts it
\* (a configuration error, or at the least the library's own ValueError), and
\* no degenerate rectangle is ever drawn.
C12_FailsFastOnDegenerate ==
    /\ (\E p \in DOMAIN PlanRects(plan.layout) : Degenerate(PlanRects(plan.layout)[p]))
          => plan.pc \in {"Start", "ConfigError", "ValueError"}
    /\ \A i \in 1..Len(plan.drawn) : ~Degenerate(plan.drawn[i].box)

====
